---- MODULE Spec2Model ----
(***************************************************************************)
(* Frame ingestion / backpressure pipeline (WebRTCService, the server's    *)
(* 'phone-stream' handler, MetricsService counters) and the multi-object   *)
(* tracker (ObjectTracker) of webrtc-object-detection.                     *)
(*                                                                         *)
(* The pipeline runs on the node.js event loop: a socket message, a timer  *)
(* callback and the continuation of an awaited promise each run to their   *)
(* next await without interleaving, so each is one atomic action here.     *)
(***************************************************************************)
EXTENDS Integers, Sequences, FiniteSets, TLC

\* ------------------------------------------------------------------ bounds

\* Number of 'phone-stream' messages (frames) that arrive in a run.
MaxFrames == 5

\* Number of firings of the setInterval callback in a run.
MaxTicks == 2

\* A detector timeout expressed in scheduler periods: a call that has seen
\* more than this many ticks go by has exceeded any configured timeout.
TimeoutTicks == 1

\* config.INFERENCE.maxQueueSize as configured for the run (read from the
\* environment configuration; the default is 5).
maxQueueSize == 2

\* config.INFERENCE.targetFps as configured for the run (read from the
\* environment configuration; the default is 15).
targetFps == 2

\* config.METRICS.windowSize, in seconds, as configured for the run (read
\* from the environment configuration; the default is 30).
windowSize == 1

\* ------------------------------------------------------------------- state

VARIABLES
    frameQueue,     \* WebRTCService.frameQueue: frame ids, oldest first
    isProcessing,   \* WebRTCService.isProcessing
    inflight,       \* detectObjects calls awaited by a processNextFrame
    arrived,        \* number of frames received so far (frame ids 1..arrived)
    ticks,          \* number of timer callbacks fired so far
    cleanedUp,      \* cleanup() has been called
    detectorLog,    \* frames passed to detectObjects, in call order
    droppedLog,     \* frames removed from the queue by handlePhoneFrame
    skipped,        \* frames discarded by "frameQueue.length = 0" in processNextFrame
    failed,         \* frames whose detector call errored
    succeeded,      \* frames whose detector call returned detections
    returned,       \* value the last completed processNextFrame returned
    broadcasts,     \* 'detection-result' payloads emitted by the server
    metrics,        \* MetricsService.metrics (server instance)
    isCollecting,   \* MetricsService.isCollecting (server instance)
    tracks,         \* ObjectTracker.tracks: the Map's values in insertion order
    trackHistory,   \* ObjectTracker.trackHistory: track id -> trajectory
    nextTrackId,    \* ObjectTracker.nextTrackId
    cycles,         \* number of ObjectTracker.update calls so far
    createdIds,     \* ids given out by createTrack, in order
    removedIds,     \* ids of the tracks deleted by pruneOldTracks
    removedTracks,  \* the tracks deleted by pruneOldTracks, as they were then
    confirmedOut,   \* what the last update() returned
    maxAge,         \* ObjectTracker.maxAge, set by the constructor
    births,         \* for every id given out: the cycle and the detection it was created from
    latencies,      \* the array handed to calculateLatencyStats, as the caller sees it
    latenciesIn,    \* its content when it was first handed over
    stats,          \* what calculateLatencyStats returned for it
    statsAgain,     \* what a second call on the same array returned
    statsCalls,     \* number of calls made on the array (0, 1 or 2)
    routeService,   \* the MetricsService instance of routes/metrics.js
    response,       \* body of the last HTTP response of the metrics router
    requests,       \* number of HTTP requests served by the metrics router
    isStreaming,    \* PhoneStreamer.isStreaming
    frameCount,     \* PhoneStreamer.frameCount
    capturing,      \* capture() invocations waiting for resizeImage
    pendingCaptures, \* setTimeout(capture, targetInterval) timers not yet fired
    starts          \* number of startStreaming calls that started a loop

pipelineVars == <<frameQueue, isProcessing, inflight, arrived, ticks, cleanedUp,
                  detectorLog, droppedLog, skipped, failed, succeeded, returned,
                  broadcasts, metrics, isCollecting>>

trackerVars == <<tracks, trackHistory, nextTrackId, cycles, createdIds,
                 removedIds, removedTracks, confirmedOut, maxAge, births>>

statsVars == <<latencies, latenciesIn, stats, statsAgain, statsCalls>>

httpVars == <<routeService, response, requests>>

streamerVars == <<isStreaming, frameCount, capturing, pendingCaptures, starts>>

vars == <<pipelineVars, trackerVars, statsVars, httpVars, streamerVars>>

Range(s) == {s[i] : i \in DOMAIN s}

\* The value of "return null" / an absent result.
NullResult == [frame_id |-> 0, detections |-> "null"]

\* The record built at lines 92-105 of processNextFrame.
Result(f, dets) == [frame_id |-> f, detections |-> dets]

\* ----------------------------------------------------------- MetricsService

\* MetricsService.recordFrame
recordFrameKeepOldest(m, collecting, r) ==
    IF ~collecting \/ r = NullResult THEN m
    ELSE LET pushed    == Append(m.frames, r.frame_id)
             maxFrames == windowSize * targetFps
             kept      == IF Len(pushed) > maxFrames
                          THEN SubSeq(pushed, 1, maxFrames)
                          ELSE pushed
         IN  [m EXCEPT !.frames = kept, !.processedFrames = @ + 1]

recordFrame(m, collecting, r) ==
    IF ~collecting \/ r = NullResult THEN m
    ELSE LET pushed    == Append(m.frames, r.frame_id)
             maxFrames == windowSize * targetFps
             kept      == IF Len(pushed) > maxFrames
                          THEN SubSeq(pushed, Len(pushed) - maxFrames + 1, Len(pushed))
                          ELSE pushed
         IN  [m EXCEPT !.frames = kept, !.processedFrames = @ + 1]

\* MetricsService.recordDroppedFrame. No code path of the pipeline calls it.
recordDroppedFrame(m, collecting) ==
    IF ~collecting THEN m ELSE [m EXCEPT !.droppedFrames = @ + 1]

\* ----------------------------------------------------------- WebRTCService

\* handlePhoneFrame lines 35-41: backpressure (shift the oldest frame out
\* of a full queue), then push.
EnqueueDropNewest(q, f) ==
    IF Len(q) >= maxQueueSize THEN q ELSE Append(q, f)
Enqueue(q, f) ==
    Append(IF Len(q) >= maxQueueSize THEN Tail(q) ELSE q, f)

\* processNextFrame line 81: frameQueue.pop().
PopOldest(q) == q[1]
PopLatest(q) == q[Len(q)]

\* handlePhoneFrame line 44: process immediately unless already processing.
ArrivalStartsAlways(flag) == TRUE
ArrivalStarts(flag) == ~flag

\* startQueueProcessor line 62.
TickStartsWhileBusy(flag, q) == Len(q) > 0
TickStartsInverted(flag, q) == flag /\ Len(q) > 0
TickStarts(flag, q) == ~flag /\ Len(q) > 0

\* processNextFrame line 118: the finally block's value of isProcessing.
FinallyKeepsFlag(flag) == flag
FinallyFlag(flag) == FALSE

\* The server's .then callback (lines 1022-1025 of the server file):
\* broadcast the value handlePhoneFrame resolved with, then recordFrame it.
Deliver(r) ==
    /\ broadcasts' = Append(broadcasts, r)
    /\ metrics' = recordFrame(metrics, isCollecting, r)

\* processNextFrame lines 73-87, with q the queue at the time of the call:
\* take the latest frame, clear the queue, call the detector.
processNextFrameStartKeepQueue(q, by, calls) ==
    /\ isProcessing' = TRUE
    /\ frameQueue' = SubSeq(q, 1, Len(q) - 1)
    /\ inflight' = calls \cup {[frame |-> PopLatest(q), by |-> by, waited |-> 0]}
    /\ detectorLog' = Append(detectorLog, PopLatest(q))
    /\ skipped' = skipped

processNextFrameStart(q, by, calls) ==
    /\ isProcessing' = TRUE
    /\ frameQueue' = << >>
    /\ inflight' = calls \cup {[frame |-> PopLatest(q), by |-> by, waited |-> 0]}
    /\ detectorLog' = Append(detectorLog, PopLatest(q))
    /\ skipped' = skipped \cup (Range(q) \ {PopLatest(q)})

\* socket.on('phone-stream') -> WebRTCService.handlePhoneFrame
handlePhoneFrame ==
    /\ arrived < MaxFrames
    /\ LET f == arrived + 1
           q == Enqueue(frameQueue, f)
       IN  /\ arrived' = f
           /\ droppedLog' = droppedLog \cup ((Range(frameQueue) \cup {f}) \ Range(q))
           /\ IF ArrivalStarts(isProcessing)
              THEN /\ processNextFrameStart(q, "arrival", inflight)
                   /\ UNCHANGED <<broadcasts, metrics>>
              ELSE \* line 48: return null; the server's .then runs with null
                   /\ frameQueue' = q
                   /\ Deliver(NullResult)
                   /\ UNCHANGED <<isProcessing, inflight, detectorLog, skipped>>
    /\ UNCHANGED <<ticks, cleanedUp, failed, succeeded, returned, isCollecting>>
    /\ UNCHANGED <<trackerVars, statsVars, httpVars, streamerVars>>

\* One more scheduler period has gone by for every call still in flight.
Waited(calls) == {[c EXCEPT !.waited = @ + 1] : c \in calls}

\* The setInterval callback registered by startQueueProcessor. The interval
\* handle is not kept, so the callback keeps firing for the process lifetime.
Tick ==
    /\ ticks < MaxTicks
    /\ ticks' = ticks + 1
    /\ IF TickStarts(isProcessing, frameQueue)
       THEN processNextFrameStart(frameQueue, "tick", Waited(inflight))
       ELSE /\ inflight' = Waited(inflight)
            /\ UNCHANGED <<isProcessing, frameQueue, detectorLog, skipped>>
    /\ UNCHANGED <<arrived, cleanedUp, droppedLog, failed, succeeded, returned,
                   broadcasts, metrics, isCollecting>>
    /\ UNCHANGED <<trackerVars, statsVars, httpVars, streamerVars>>

\* The same callback in a run without end: the two counters stop counting
\* at MaxTicks, the callback keeps firing.
WaitedToCap(calls) ==
    {[c EXCEPT !.waited = IF @ < MaxTicks THEN @ + 1 ELSE @] : c \in calls}

TickForever ==
    /\ ticks' = IF ticks < MaxTicks THEN ticks + 1 ELSE ticks
    /\ IF TickStarts(isProcessing, frameQueue)
       THEN processNextFrameStart(frameQueue, "tick", WaitedToCap(inflight))
       ELSE /\ inflight' = WaitedToCap(inflight)
            /\ UNCHANGED <<isProcessing, frameQueue, detectorLog, skipped>>
    /\ UNCHANGED <<arrived, cleanedUp, droppedLog, failed, succeeded, returned,
                   broadcasts, metrics, isCollecting>>
    /\ UNCHANGED <<trackerVars, statsVars, httpVars, streamerVars>>

\* Continuation of processNextFrame after "await detectObjects" resolves
\* (lines 89-113, then finally).
Complete(c, r) ==
    /\ inflight' = inflight \ {c}
    /\ isProcessing' = FinallyFlag(isProcessing)
    /\ returned' = r
    /\ IF c.by = "arrival"
       THEN Deliver(r)
       ELSE UNCHANGED <<broadcasts, metrics>>   \* line 63: value discarded

DetectResolve ==
    \E c \in inflight :
        /\ Complete(c, Result(c.frame, "boxes"))
        /\ succeeded' = succeeded \cup {c.frame}
        /\ UNCHANGED <<frameQueue, arrived, ticks, cleanedUp, detectorLog,
                       droppedLog, skipped, failed, isCollecting, trackerVars,
                       statsVars, httpVars, streamerVars>>

\* inference.js lines 132-135: inference throws inside detectObjects, which
\* logs the error and resolves with [].
DetectCaught ==
    \E c \in inflight :
        /\ Complete(c, Result(c.frame, "empty"))
        /\ failed' = failed \cup {c.frame}
        /\ UNCHANGED <<frameQueue, arrived, ticks, cleanedUp, detectorLog,
                       droppedLog, skipped, succeeded, isCollecting, trackerVars,
                       statsVars, httpVars, streamerVars>>

\* The awaited call rejects, or building the result throws: catch (lines
\* 114-116) returns null, then finally.
DetectReject ==
    \E c \in inflight :
        /\ Complete(c, NullResult)
        /\ failed' = failed \cup {c.frame}
        /\ UNCHANGED <<frameQueue, arrived, ticks, cleanedUp, detectorLog,
                       droppedLog, skipped, succeeded, isCollecting, trackerVars,
                       statsVars, httpVars, streamerVars>>

\* WebRTCService.cleanup
cleanup ==
    /\ ~cleanedUp
    /\ cleanedUp' = TRUE
    /\ frameQueue' = << >>
    /\ isProcessing' = FALSE
    /\ UNCHANGED <<inflight, arrived, ticks, detectorLog, droppedLog, skipped,
                   failed, succeeded, returned, broadcasts, metrics, isCollecting>>
    /\ UNCHANGED <<trackerVars, statsVars, httpVars, streamerVars>>

\* ------------------------------------------------------------ ObjectTracker

\* Number of ObjectTracker.update calls in a run.
MaxCycles == 5

\* options.maxAge as passed to the constructor: a short-lived configuration
\* and one in which the age limit of unconfirmed tracks comes first, as with
\* the default 30.
ShortMaxAge == 2
LongMaxAge == 12

\* options.minHits (default 3).
minHits == 3

\* options.iouThreshold (default 0.3), as a fraction.
iouThreshold == [num |-> 3, den |-> 10]

\* pruneOldTracks: the age above which an unconfirmed track is removed.
ageLimit == 10

\* updateTrack: the trajectory cap.
historyCap == 50

\* A detection record as the viewer hands it to update(): normalized
\* coordinates in tenths, a label and a score in tenths.
Detection(x1, y1, x2, y2, label, score) ==
    [xmin |-> x1, ymin |-> y1, xmax |-> x2, ymax |-> y2,
     label |-> label, score |-> score]

\* The detections a batch is drawn from: two boxes with IoU 0.5 and a
\* third one disjoint from both.
Detections ==
    { Detection(1, 1, 4, 4, "person", 9),
      Detection(2, 1, 5, 4, "person", 8),
      Detection(6, 6, 9, 9, "car", 7) }

\* The batches passed to update(): up to two distinct detections.
Batches ==
    {<< >>} \cup {<<d>> : d \in Detections}
            \cup {<<p[1], p[2]>> : p \in {q \in Detections \X Detections : q[1] # q[2]}}

MaxOf(a, b) == IF a >= b THEN a ELSE b
MinOf(a, b) == IF a <= b THEN a ELSE b

\* ObjectTracker.calculateIoU, as the fraction intersection / union.
calculateIoU(box1, box2) ==
    LET x1 == MaxOf(box1.xmin, box2.xmin)
        y1 == MaxOf(box1.ymin, box2.ymin)
        x2 == MinOf(box1.xmax, box2.xmax)
        y2 == MinOf(box1.ymax, box2.ymax)
        intersection == (x2 - x1) * (y2 - y1)
        area1 == (box1.xmax - box1.xmin) * (box1.ymax - box1.ymin)
        area2 == (box2.xmax - box2.xmin) * (box2.ymax - box2.ymin)
    IN  IF x2 <= x1 \/ y2 <= y1 THEN [num |-> 0, den |-> 1]
        ELSE [num |-> intersection, den |-> area1 + area2 - intersection]

\* costMatrix[i][j] = 1 - iou (associate line 302).
Cost(prediction, detection) ==
    LET iou == calculateIoU(prediction, detection)
    IN  [num |-> iou.den - iou.num, den |-> iou.den]

\* a < b for two fractions with positive denominators.
Less(a, b) == a.num * b.den < b.num * a.den

\* 1 - this.iouThreshold
MaxCostLoose == [num |-> 1, den |-> 1]
MaxCost == [num |-> iouThreshold.den - iouThreshold.num, den |-> iouThreshold.den]

\* associate lines 313-321: the scan of the detections for track
\* prediction pred; j = 0 stands for bestJ = -1 (bestCost = Infinity).
RECURSIVE BestFromFirstFree(_, _, _, _, _)
BestFromFirstFree(j, pred, dets, free, best) ==
    IF j > Len(dets) THEN best
    ELSE IF j \in free
         THEN [j |-> j, cost |-> Cost(pred, dets[j])]
         ELSE BestFromFirstFree(j + 1, pred, dets, free, best)

RECURSIVE BestFrom(_, _, _, _, _)
BestFrom(j, pred, dets, free, best) ==
    IF j > Len(dets) THEN best
    ELSE IF j \in free /\ (best.j = 0 \/ Less(Cost(pred, dets[j]), best.cost))
         THEN BestFrom(j + 1, pred, dets, free, [j |-> j, cost |-> Cost(pred, dets[j])])
         ELSE BestFrom(j + 1, pred, dets, free, best)

\* associate lines 312-328: the loop over the tracks.
RECURSIVE AssociateFrom(_, _, _, _)
AssociateFrom(i, trks, dets, acc) ==
    IF i > Len(trks) THEN acc
    ELSE LET best == BestFrom(1, trks[i].prediction, dets, acc.unmatchedDetections,
                              [j |-> 0, cost |-> MaxCost])
         IN  IF best.j # 0 /\ Less(best.cost, MaxCost)
             THEN AssociateFrom(i + 1, trks, dets,
                    [matched |-> Append(acc.matched, <<i, best.j>>),
                     unmatchedTracks |-> acc.unmatchedTracks \ {i},
                     unmatchedDetections |-> acc.unmatchedDetections \ {best.j}])
             ELSE AssociateFrom(i + 1, trks, dets, acc)

\* ObjectTracker.associate
associate(trks, dets) ==
    AssociateFrom(1, trks, dets,
                  [matched |-> << >>,
                   unmatchedTracks |-> DOMAIN trks,
                   unmatchedDetections |-> DOMAIN dets])

\* ObjectTracker.predict, for one track.
predictTrack(t) ==
    [t EXCEPT !.prediction =
        [xmin |-> t.bbox.xmin + t.velocity.x, ymin |-> t.bbox.ymin + t.velocity.y,
         xmax |-> t.bbox.xmax + t.velocity.x, ymax |-> t.bbox.ymax + t.velocity.y]]

\* ObjectTracker.predict
predict(trks) == [i \in DOMAIN trks |-> predictTrack(trks[i])]

\* The box coordinates of a detection, as associate reads them.
BoxOf(d) == [xmin |-> d.xmin, ymin |-> d.ymin, xmax |-> d.xmax, ymax |-> d.ymax]

\* updateTrack lines 357-370: the track after a match.
updateTrackRelabel(t, detection) ==
    [t EXCEPT !.velocity = [x |-> detection.xmin - t.bbox.xmin,
                            y |-> detection.ymin - t.bbox.ymin],
              !.bbox = detection,
              !.label = detection.label,
              !.score = detection.score,
              !.timeSinceUpdate = 0,
              !.hits = @ + 1]

updateTrack(t, detection) ==
    [t EXCEPT !.velocity = [x |-> detection.xmin - t.bbox.xmin,
                            y |-> detection.ymin - t.bbox.ymin],
              !.bbox = detection,
              !.score = detection.score,
              !.timeSinceUpdate = 0,
              !.hits = @ + 1]

\* updateTrack lines 372-386: push on the trajectory, drop the oldest entry
\* beyond the cap.
pushHistoryDropNewest(h, detection) ==
    LET pushed == Append(h, detection)
    IN  IF Len(pushed) > historyCap THEN h ELSE pushed

pushHistory(h, detection) ==
    LET pushed == Append(h, detection)
    IN  IF Len(pushed) > historyCap THEN Tail(pushed) ELSE pushed

\* createTrack line 394: the id of a new track, given nextTrackId and the
\* live tracks.
ReusedTrackId(next, trks) == Len(trks) + 1
NewTrackId(next, trks) == next

\* createTrack lines 393-407
newTrackNoHit(id, detection) ==
    [id |-> id, bbox |-> detection, label |-> detection.label,
     score |-> detection.score, prediction |-> BoxOf(detection),
     velocity |-> [x |-> 0, y |-> 0], timeSinceUpdate |-> 0, hits |-> 0, age |-> 0]

newTrack(id, detection) ==
    [id |-> id, bbox |-> detection, label |-> detection.label,
     score |-> detection.score, prediction |-> BoxOf(detection),
     velocity |-> [x |-> 0, y |-> 0], timeSinceUpdate |-> 0, hits |-> 1, age |-> 0]

\* Map.set(key, value) on the tracks map: a present key keeps its place.
MapSet(trks, t) ==
    IF \E i \in DOMAIN trks : trks[i].id = t.id
    THEN [i \in DOMAIN trks |-> IF trks[i].id = t.id THEN t ELSE trks[i]]
    ELSE Append(trks, t)

\* The state of the tracker while update() runs.
TrackerState(trks, hist, next, created) ==
    [tracks |-> trks, trackHistory |-> hist, nextTrackId |-> next, createdIds |-> created]

\* update lines 247-251: updateTrack for every matched pair.
RECURSIVE UpdateMatched(_, _, _, _)
UpdateMatched(st, matched, dets, k) ==
    IF k > Len(matched) THEN st
    ELSE LET ti  == matched[k][1]
             det == dets[matched[k][2]]
             t   == st.tracks[ti]
             h   == IF t.id \in DOMAIN st.trackHistory
                    THEN st.trackHistory[t.id] ELSE << >>
         IN  UpdateMatched(
                [st EXCEPT !.tracks = [@ EXCEPT ![ti] = updateTrack(t, det)],
                           !.trackHistory =
                               [id \in DOMAIN st.trackHistory \cup {t.id} |->
                                   IF id = t.id THEN pushHistory(h, det)
                                   ELSE st.trackHistory[id]]],
                matched, dets, k + 1)

\* update lines 254-257: createTrack for every unmatched detection, in
\* index order.
RECURSIVE CreateTracks(_, _, _, _)
CreateTracks(st, free, dets, j) ==
    IF j > Len(dets) THEN st
    ELSE IF j \notin free THEN CreateTracks(st, free, dets, j + 1)
    ELSE LET id == NewTrackId(st.nextTrackId, st.tracks)
         IN  CreateTracks(
                [tracks |-> MapSet(st.tracks, newTrack(id, dets[j])),
                 trackHistory |-> [k \in DOMAIN st.trackHistory \cup {id} |->
                                      IF k = id THEN <<dets[j]>> ELSE st.trackHistory[k]],
                 nextTrackId |-> st.nextTrackId + 1,
                 createdIds |-> Append(st.createdIds, id)],
                free, dets, j + 1)

\* update lines 260-263: the unmatched tracks, addressed by array index in
\* the map as it is after the creations.
MarkLostEvery(trks, unmatchedTracks) ==
    [i \in DOMAIN trks |-> [trks[i] EXCEPT !.timeSinceUpdate = @ + 1]]

MarkLost(trks, unmatchedTracks) ==
    [i \in DOMAIN trks |->
        IF i \in unmatchedTracks
        THEN [trks[i] EXCEPT !.timeSinceUpdate = @ + 1] ELSE trks[i]]

\* pruneOldTracks line 426
AgedAfterTest(trks) == trks
Aged(trks) == [i \in DOMAIN trks |-> [trks[i] EXCEPT !.age = @ + 1]]

\* pruneOldTracks lines 429-430: the removal test, after the increment.
TooOldEarly(t) ==
    t.timeSinceUpdate >= maxAge \/ (t.hits < minHits /\ t.age > ageLimit)
TooOld(t) ==
    t.timeSinceUpdate > maxAge \/ (t.hits < minHits /\ t.age > ageLimit)

\* pruneOldTracks lines 435-439
Keep(t) == ~TooOld(t)
pruned(trks) == SelectSeq(trks, Keep)

\* getConfirmedTracks line 447: the filter.
IsConfirmedLate(t) == t.hits > minHits
IsConfirmedAll(t) == TRUE
IsConfirmed(t) == t.hits >= minHits

\* ObjectTracker.getConfirmedTracks
getConfirmedTracks(trks, hist) ==
    LET conf == SelectSeq(trks, IsConfirmed)
    IN  [i \in DOMAIN conf |->
            [xmin |-> conf[i].bbox.xmin, ymin |-> conf[i].bbox.ymin,
             xmax |-> conf[i].bbox.xmax, ymax |-> conf[i].bbox.ymax,
             trackId |-> conf[i].id, label |-> conf[i].label,
             score |-> conf[i].score, age |-> conf[i].age,
             velocity |-> conf[i].velocity,
             trajectory |-> IF conf[i].id \in DOMAIN hist
                            THEN hist[conf[i].id] ELSE << >>]]

\* update lines 241-257: predict, associate, update the matched tracks and
\* create a track for every unmatched detection.
Matched(trks, hist, next, created, detections) ==
    LET predicted == predict(trks)
        matches   == associate(predicted, detections)
        st1 == UpdateMatched(TrackerState(predicted, hist, next, created),
                             matches.matched, detections, 1)
        st2 == CreateTracks(st1, matches.unmatchedDetections, detections, 1)
    IN  [st2 EXCEPT !.tracks = MarkLost(@, matches.unmatchedTracks)]

\* ObjectTracker.update
update(detections) ==
    \E st \in {Matched(tracks, trackHistory, nextTrackId, createdIds, detections)} :
    \E aged \in {Aged(st.tracks)} :
    \E kept \in {pruned(aged)} :
        LET gone == {aged[i].id : i \in DOMAIN aged} \ {kept[i].id : i \in DOMAIN kept}
            hist == [id \in DOMAIN st.trackHistory \ gone |-> st.trackHistory[id]]
        IN  /\ tracks' = kept
            /\ trackHistory' = hist
            /\ nextTrackId' = st.nextTrackId
            /\ createdIds' = st.createdIds
            /\ removedIds' = removedIds \cup gone
            /\ removedTracks' = removedTracks \cup
                                    {aged[i] : i \in {k \in DOMAIN aged : TooOld(aged[k])}}
            /\ confirmedOut' = getConfirmedTracks(kept, hist)
            /\ maxAge' = maxAge
            /\ births' = births \o
                   [k \in 1..(Len(st.createdIds) - Len(createdIds)) |->
                       LET id == st.createdIds[Len(createdIds) + k]
                           t  == CHOOSE x \in Range(st.tracks) : x.id = id
                       IN  [id |-> id, cycle |-> cycles', detection |-> t.bbox]]

\* The viewer's handleEnhancedDetectionResult: one update() per result.
TrackerUpdate ==
    /\ cycles < MaxCycles
    /\ cycles' = cycles + 1
    /\ \E detections \in Batches : update(detections)
    /\ UNCHANGED <<pipelineVars, statsVars, httpVars, streamerVars>>

\* Number of update calls in a long run of the tracker.
MaxLongCycles == 8

\* The batches of a long run: nothing, the first box, or the disjoint one.
LongBatches ==
    { << >>,
      <<Detection(1, 1, 4, 4, "person", 9)>>,
      <<Detection(6, 6, 9, 9, "car", 7)>> }

\* handleEnhancedDetectionResult over a long run of sparse results.
TrackerUpdateLong ==
    /\ cycles < MaxLongCycles
    /\ cycles' = cycles + 1
    /\ \E detections \in LongBatches : update(detections)
    /\ UNCHANGED <<pipelineVars, statsVars, httpVars, streamerVars>>

\* Number of update calls in a run with competing detections.
MaxMixedCycles == 4

\* A box and its two neighbours, shifted by a third of its width to either
\* side: each neighbour has IoU 0.5 with the box, and the left one carries
\* another label.
MixedDetections ==
    [box   |-> Detection(1, 1, 4, 4, "person", 9),
     right |-> Detection(2, 1, 5, 4, "person", 8),
     left  |-> Detection(0, 1, 3, 4, "dog", 6)]

MixedBatches ==
    { << >>,
      <<MixedDetections.box>>,
      <<MixedDetections.left>>,
      <<MixedDetections.left, MixedDetections.right>>,
      <<MixedDetections.right, MixedDetections.left>> }

\* handleEnhancedDetectionResult over results with competing detections.
TrackerUpdateMixed ==
    /\ cycles < MaxMixedCycles
    /\ cycles' = cycles + 1
    /\ \E detections \in MixedBatches : update(detections)
    /\ UNCHANGED <<pipelineVars, statsVars, httpVars, streamerVars>>

\* Number of update calls in a run of a long-lived tracker.
MaxAgedCycles == 12

\* The batches of that run: nothing, or one box.
AgedBatches == { << >>, <<Detection(1, 1, 4, 4, "person", 9)>> }

\* handleEnhancedDetectionResult over a run of the long-lived tracker.
TrackerUpdateAged ==
    /\ cycles < MaxAgedCycles
    /\ cycles' = cycles + 1
    /\ \E detections \in AgedBatches : update(detections)
    /\ UNCHANGED <<pipelineVars, statsVars, httpVars, streamerVars>>

\* Number of update calls in a run long enough for a trajectory to reach
\* its cap, and the number of its first cycles in which the result varies.
MaxHistoryCycles == 56
VariedCycles == 6

\* The results of that run: one of two overlapping boxes at first, then
\* always the same box.
HistoryBatches(n) ==
    IF n < VariedCycles
    THEN { <<Detection(1, 1, 4, 4, "person", 9)>>, <<Detection(2, 1, 5, 4, "person", 8)>> }
    ELSE { <<Detection(1, 1, 4, 4, "person", 9)>> }

\* handleEnhancedDetectionResult over a run in which an object is seen in
\* every result.
TrackerUpdateHistory ==
    /\ cycles < MaxHistoryCycles
    /\ cycles' = cycles + 1
    /\ \E detections \in HistoryBatches(cycles) : update(detections)
    /\ UNCHANGED <<pipelineVars, statsVars, httpVars, streamerVars>>

\* Number of update calls in a run fed with unchecked results.
MaxRawCycles == 3

\* The label of a detection that carries none.
NoLabel == ""

\* Detections as they may come off the wire: a valid one, one without a
\* label, one with coordinates beyond 1.0 and one with xmin >= xmax.
RawDetections ==
    { Detection(1, 1, 4, 4, "person", 9),
      Detection(2, 1, 5, 4, NoLabel, 8),
      Detection(6, 6, 12, 12, "car", 7),
      Detection(4, 1, 1, 4, "car", 6) }

RawBatches ==
    {<< >>} \cup {<<d>> : d \in RawDetections}
            \cup {<<p[1], p[2]>> : p \in {q \in RawDetections \X RawDetections : q[1] # q[2]}}

\* handleEnhancedDetectionResult passes result.detections to update() as
\* received.
TrackerUpdateRaw ==
    /\ cycles < MaxRawCycles
    /\ cycles' = cycles + 1
    /\ \E detections \in RawBatches : update(detections)
    /\ UNCHANGED <<pipelineVars, statsVars, httpVars, streamerVars>>

\* ------------------------------------------------------ latency statistics

\* Latencies are differences of millisecond timestamps: integers, negative
\* when the clocks of phone and server disagree.
MaxLatency == 3
MaxShortLen == 4
MaxLongLen == 22
LongLens == 20..MaxLongLen

Latencies == -1..MaxLatency

\* Every short list, and scrambled lists long enough for the 95th
\* percentile to differ from the maximum.
LatencyLists ==
    UNION {[1..n -> Latencies] : n \in 0..MaxShortLen}
        \cup {[i \in 1..n |-> (i * 13) % n] : n \in LongLens}

\* Array.prototype.sort with the comparator (a, b) => a - b: ascending
\* numeric order.
InsertAsc(s, x) ==
    LET k == Cardinality({i \in DOMAIN s : s[i] <= x})
    IN  SubSeq(s, 1, k) \o <<x>> \o SubSeq(s, k + 1, Len(s))

RECURSIVE sorted(_)
sorted(l) ==
    IF l = << >> THEN << >>
    ELSE InsertAsc(sorted(SubSeq(l, 1, Len(l) - 1)), l[Len(l)])

RECURSIVE Sum(_)
Sum(l) == IF l = << >> THEN 0 ELSE l[1] + Sum(Tail(l))

\* Zero-based indices of the median and of the 95th percentile in the
\* sorted copy. Math.floor(n * 0.95) equals floor(95 n / 100) in double
\* arithmetic for every n up to two million.
medianIndex(n) == n \div 2
p95Index(n) == (n * 95) \div 100

ZeroStats == [median |-> 0, p95 |-> 0, min |-> 0, max |-> 0,
              avg |-> [num |-> 0, den |-> 1]]

\* MetricsService.calculateLatencyStats. avg is kept as the fraction
\* sum / length.
calculateLatencyStats(l) ==
    IF Len(l) = 0 THEN ZeroStats
    ELSE LET s == sorted(l)
         IN  [median |-> s[medianIndex(Len(s)) + 1],
              p95    |-> s[p95Index(Len(s)) + 1],
              min    |-> s[1],
              max    |-> s[Len(s)],
              avg    |-> [num |-> Sum(l), den |-> Len(l)]]

\* The caller's array after the call: latencies.slice() makes the copy that
\* is sorted, the array itself is only read.
callerArraySortedInPlace(l) == sorted(l)
callerArray(l) == l

\* getCurrentMetrics / generateDetailedReport: a first call on a list.
CalculateStats ==
    /\ statsCalls = 0
    /\ \E l \in LatencyLists :
          /\ latenciesIn' = l
          /\ stats' = calculateLatencyStats(l)
          /\ latencies' = callerArray(l)
    /\ statsAgain' = ZeroStats
    /\ statsCalls' = 1
    /\ UNCHANGED <<pipelineVars, trackerVars, httpVars, streamerVars>>

\* The next request computes the statistics of the same array again.
CalculateStatsAgain ==
    /\ statsCalls = 1
    /\ statsAgain' = calculateLatencyStats(latencies)
    /\ latencies' = callerArray(latencies)
    /\ statsCalls' = 2
    /\ UNCHANGED <<latenciesIn, stats>>
    /\ UNCHANGED <<pipelineVars, trackerVars, httpVars, streamerVars>>

\* ------------------------------------------------------- metrics router

\* Number of HTTP requests served in a run.
MaxRequests == 2

EmptyMetrics == [frames |-> << >>, totalFrames |-> 0, processedFrames |-> 0,
                 droppedFrames |-> 0]

\* routes/metrics.js line 8: let metricsService = null.
NoService == [created |-> FALSE, isCollecting |-> FALSE, metrics |-> EmptyMetrics]

\* new MetricsService(): empty metrics, startCollection() called.
NewMetricsService == [created |-> TRUE, isCollecting |-> TRUE, metrics |-> EmptyMetrics]

\* getMetricsService: the router creates its own MetricsService on first use.
getMetricsService(s) == IF ~s.created THEN NewMetricsService ELSE s

NoResponse == [route |-> "none", error |-> FALSE, processedFrames |-> 0,
               samples |-> 0]

\* MetricsService.getCurrentMetrics: the fields the response carries.
getCurrentMetrics(m) ==
    [route |-> "metrics", error |-> FALSE,
     processedFrames |-> m.processedFrames, samples |-> Len(m.frames)]

\* MetricsService.generateDetailedReport, every stored sample being within
\* the requested duration.
generateDetailedReport(m) ==
    IF Len(m.frames) = 0
    THEN [route |-> "report", error |-> TRUE, processedFrames |-> 0, samples |-> 0]
    ELSE [route |-> "report", error |-> FALSE,
          processedFrames |-> Len(m.frames), samples |-> Len(m.frames)]

\* GET /metrics
GetMetrics ==
    /\ requests < MaxRequests
    /\ requests' = requests + 1
    /\ routeService' = getMetricsService(routeService)
    /\ response' = getCurrentMetrics(routeService'.metrics)
    /\ UNCHANGED <<pipelineVars, trackerVars, statsVars, streamerVars>>

\* GET /metrics/report
GetReport ==
    /\ requests < MaxRequests
    /\ requests' = requests + 1
    /\ routeService' = getMetricsService(routeService)
    /\ response' = generateDetailedReport(routeService'.metrics)
    /\ UNCHANGED <<pipelineVars, trackerVars, statsVars, streamerVars>>

\* --------------------------------------------------------- PhoneStreamer

\* Number of times streaming is started, and of frames sent, in a run.
MaxStarts == 3
MaxSent == 5

\* capture() up to its first await (lines 306-316): it returns at once when
\* streaming is off, and otherwise waits for resizeImage.
captureBegins(streaming) == streaming

\* startStreaming, called while not streaming: set the flag and call
\* captureLoop(), whose first capture() runs synchronously up to the await.
startStreaming ==
    /\ ~isStreaming
    /\ starts < MaxStarts
    /\ starts' = starts + 1
    /\ isStreaming' = TRUE
    /\ capturing' = IF captureBegins(isStreaming') THEN capturing + 1 ELSE capturing
    /\ UNCHANGED <<frameCount, pendingCaptures>>
    /\ UNCHANGED <<pipelineVars, trackerVars, statsVars, httpVars>>

\* stopStreaming: clears the flag; no timer is cancelled.
stopStreaming ==
    /\ isStreaming
    /\ isStreaming' = FALSE
    /\ UNCHANGED <<frameCount, capturing, pendingCaptures, starts>>
    /\ UNCHANGED <<pipelineVars, trackerVars, statsVars, httpVars>>

\* capture() after the await (lines 319-331): send the frame, count it, and
\* schedule the next capture whatever isStreaming is by then.
CaptureSends ==
    /\ capturing > 0
    /\ frameCount < MaxSent
    /\ frameCount' = frameCount + 1
    /\ capturing' = capturing - 1
    /\ pendingCaptures' = pendingCaptures + 1
    /\ UNCHANGED <<isStreaming, starts>>
    /\ UNCHANGED <<pipelineVars, trackerVars, statsVars, httpVars>>

\* A setTimeout(capture, targetInterval) timer fires: capture() runs.
CaptureTimer ==
    /\ pendingCaptures > 0
    /\ pendingCaptures' = pendingCaptures - 1
    /\ capturing' = IF captureBegins(isStreaming) THEN capturing + 1 ELSE capturing
    /\ UNCHANGED <<isStreaming, frameCount, starts>>
    /\ UNCHANGED <<pipelineVars, trackerVars, statsVars, httpVars>>

\* The state after construction, the tracker being given options.maxAge.
Constructed(age) ==
    /\ frameQueue = << >>
    /\ isProcessing = FALSE
    /\ inflight = {}
    /\ arrived = 0
    /\ ticks = 0
    /\ cleanedUp = FALSE
    /\ detectorLog = << >>
    /\ droppedLog = {}
    /\ skipped = {}
    /\ failed = {}
    /\ succeeded = {}
    /\ returned = NullResult
    /\ broadcasts = << >>
    /\ metrics = [frames |-> << >>, totalFrames |-> 0, processedFrames |-> 0,
                  droppedFrames |-> 0]
    /\ isCollecting = TRUE
    /\ tracks = << >>
    /\ trackHistory = << >>
    /\ nextTrackId = 1
    /\ cycles = 0
    /\ createdIds = << >>
    /\ removedIds = {}
    /\ removedTracks = {}
    /\ confirmedOut = << >>
    /\ maxAge = age
    /\ births = << >>
    /\ latencies = << >>
    /\ latenciesIn = << >>
    /\ stats = ZeroStats
    /\ statsAgain = ZeroStats
    /\ statsCalls = 0
    /\ routeService = NoService
    /\ response = NoResponse
    /\ requests = 0
    /\ isStreaming = FALSE
    /\ frameCount = 0
    /\ capturing = 0
    /\ pendingCaptures = 0
    /\ starts = 0

Init == Constructed(ShortMaxAge)

\* The tracker constructed with a maxAge beyond the age limit of
\* unconfirmed tracks.
InitLongLived == Constructed(LongMaxAge)

\* The streaming pipeline: arrivals, ticks and detector completions.
NextStream ==
    \/ handlePhoneFrame
    \/ Tick
    \/ DetectResolve
    \/ DetectCaught
    \/ DetectReject

SpecStream == Init /\ [][NextStream]_vars

\* The pipeline with shutdown.
Next ==
    \/ handlePhoneFrame
    \/ Tick
    \/ DetectResolve
    \/ DetectCaught
    \/ DetectReject
    \/ cleanup

Spec == Init /\ [][Next]_vars

\* The tracker, driven by a sequence of detection batches.
NextTracker ==
    \/ TrackerUpdate

SpecTracker == Init /\ [][NextTracker]_vars

\* The tracker over a long run of sparse results.
NextTrackerLong ==
    \/ TrackerUpdateLong

SpecTrackerLong == Init /\ [][NextTrackerLong]_vars

\* The tracker fed with results that were not validated.
NextTrackerRaw ==
    \/ TrackerUpdateRaw

SpecTrackerRaw == Init /\ [][NextTrackerRaw]_vars

\* The streaming pipeline running on: the timer keeps firing (setInterval)
\* and every detector call comes to an end.
DetectCompletes ==
    \/ DetectResolve
    \/ DetectCaught
    \/ DetectReject

NextLive ==
    \/ handlePhoneFrame
    \/ TickForever
    \/ DetectCompletes

SpecLive ==
    Init /\ [][NextLive]_vars /\ WF_vars(TickForever) /\ WF_vars(DetectCompletes)

\* The phone's streamer: start and stop buttons, capture steps and timers.
NextStreamer ==
    \/ startStreaming
    \/ stopStreaming
    \/ CaptureSends
    \/ CaptureTimer

SpecStreamer == Init /\ [][NextStreamer]_vars

\* The tracker fed with competing detections.
NextTrackerMixed ==
    \/ TrackerUpdateMixed

SpecTrackerMixed == Init /\ [][NextTrackerMixed]_vars

\* The long-lived tracker.
NextTrackerAged ==
    \/ TrackerUpdateAged

SpecTrackerAged == InitLongLived /\ [][NextTrackerAged]_vars

\* The tracker following one object through a long run.
NextTrackerHistory ==
    \/ TrackerUpdateHistory

SpecTrackerHistory == Init /\ [][NextTrackerHistory]_vars

\* The latency statistics computed on a list, and computed again.
NextStats ==
    \/ CalculateStats
    \/ CalculateStatsAgain

SpecStats == Init /\ [][NextStats]_vars

\* The streaming pipeline together with requests to the metrics router.
NextHttp ==
    \/ NextStream
    \/ GetMetrics
    \/ GetReport

SpecHttp == Init /\ [][NextHttp]_vars

\* ------------------------------------------------------ pipeline properties

Max(S) == CHOOSE x \in S : \A y \in S : y <= x
Min(S) == CHOOSE x \in S : \A y \in S : x <= y
Last(q) == q[Len(q)]

\* Frames of the calls currently in flight.
InFlightFrames == {c.frame : c \in inflight}

\* Number of 'detection-result' events broadcast for frame f.
BroadcastCount(f) ==
    Cardinality({i \in DOMAIN broadcasts : broadcasts[i].frame_id = f})

\* Number of samples recorded by recordFrame for frame f.
SampleCount(f) ==
    Cardinality({i \in DOMAIN metrics.frames : metrics.frames[i] = f})

\* C1: with arrivals, ticks and detector completions only, at most one
\* detectObjects call started by processNextFrame is in flight at any time,
\* and no step taken while a call is in flight starts another call.
C1_AtMostOneInFlight ==
    /\ [](Cardinality(inflight) <= 1)
    /\ [][inflight # {} => detectorLog' = detectorLog]_vars

\* C1 witness: a call is in flight, a tick has fired during it and a frame
\* that arrived during it is pending.
C1_Witness ==
    /\ ~cleanedUp
    /\ \E c \in inflight : c.waited > 0
    /\ frameQueue # << >>

\* C2: a processNextFrame that finds several pending frames passes only the
\* most recently arrived one to the detector and empties the queue, and no
\* frame that was pending before it and not chosen is ever passed to the
\* detector.
C2_OnlyLatestPending ==
    /\ [][detectorLog' # detectorLog =>
            /\ detectorLog' = Append(detectorLog, Max(Range(frameQueue) \cup (arrived + 1 .. arrived')))
            /\ frameQueue' = << >>]_vars
    /\ []((skipped \cup droppedLog) \cap Range(detectorLog) = {})

\* C2 witness: two frames arrived during a detection, the later one has been
\* passed to the detector and the earlier one has been discarded.
C2_Witness ==
    \E i \in DOMAIN detectorLog :
        /\ detectorLog[i] - 1 \in skipped
        /\ detectorLog[i] - 1 \notin Range(detectorLog)

\* C3: frameQueue never holds more than maxQueueSize frames, and an arrival
\* that finds the queue full removes exactly the oldest pending frame, the
\* new frame being kept (queued or handed to the detector).
C3_BoundedDropOldest ==
    /\ [](Len(frameQueue) <= maxQueueSize)
    /\ [][(arrived' # arrived /\ Len(frameQueue) >= maxQueueSize) =>
            /\ droppedLog' = droppedLog \cup {Min(Range(frameQueue))}
            /\ arrived' \in Range(frameQueue') \cup InFlightFrames']_vars

\* C3 witness: an arrival found the queue full; the oldest pending frame
\* is gone and the queue is full again with the new frame last.
C3_Witness ==
    /\ droppedLog # {}
    /\ Len(frameQueue) = maxQueueSize
    /\ Last(frameQueue) = arrived
    /\ \A f \in droppedLog : f < Min(Range(frameQueue))

\* C4: every frame evicted on overflow or discarded when processNextFrame
\* clears the queue has incremented metrics.droppedFrames by one.
C4_DroppedCounted ==
    metrics.droppedFrames = Cardinality(droppedLog \cup skipped)

\* C5: when the detector call rejects (or building the result throws),
\* processNextFrame returns null (the server's .then runs with null, nothing
\* is thrown to it) and isProcessing is false afterwards; and whenever
\* isProcessing is false an arriving frame starts a detector call on that
\* frame, and a tick with pending work starts one too.
C5_FailureRecovers ==
    /\ [][DetectReject => (returned' = NullResult /\ ~isProcessing')]_vars
    /\ [][(DetectReject /\ \E c \in inflight \ inflight' : c.by = "arrival") =>
            broadcasts' = Append(broadcasts, NullResult)]_vars
    /\ [][(~isProcessing /\ arrived' # arrived) =>
            detectorLog' = Append(detectorLog, arrived')]_vars
    /\ [][(~isProcessing /\ ticks' # ticks /\ frameQueue # << >>) =>
            Len(detectorLog') = Len(detectorLog) + 1]_vars

\* C5 witness: the last processNextFrame to complete failed and returned
\* null, and a fresh detector call has been started since.
C5_Witness ==
    /\ ~cleanedUp
    /\ returned = NullResult
    /\ Len(detectorLog) >= 2
    /\ detectorLog[Len(detectorLog) - 1] \in failed
    /\ Last(detectorLog) \in InFlightFrames

\* C6: a frame whose detector call errored is never forwarded downstream
\* (no broadcast for it, no sample recorded) and is counted as dropped.
C6_ErrorDropsFrame ==
    /\ \A f \in failed : BroadcastCount(f) = 0 /\ SampleCount(f) = 0
    /\ metrics.droppedFrames >= Cardinality(failed)

\* C7: a detector call that has been pending for longer than the timeout
\* is abandoned: isProcessing is no longer held by it.
C7_TimeoutAbandons ==
    ~(isProcessing /\ \E c \in inflight : c.waited > TimeoutTicks)

\* C8: after cleanup() the periodic timer never starts a detector call.
C8_NoTickAfterCleanup ==
    [][(cleanedUp /\ ticks' # ticks) => detectorLog' = detectorLog]_vars

\* C9: every frame whose detector call completed successfully has exactly
\* one result record broadcast and exactly one sample recorded, whether the
\* call was started by the arrival or by a tick.
C9_ResultForwardedOnce ==
    \A f \in succeeded : BroadcastCount(f) = 1 /\ SampleCount(f) = 1

\* ------------------------------------------------------- tracker properties

LiveIds == {tracks[i].id : i \in DOMAIN tracks}

\* C10: track ids are given out in strictly increasing order, no two live
\* tracks share an id, and the id of a removed track is never the id of a
\* live track again.
C10_TrackIdsNeverReused ==
    /\ \A i \in DOMAIN createdIds : \A j \in DOMAIN createdIds :
           i < j => createdIds[i] < createdIds[j]
    /\ \A i \in DOMAIN tracks : \A j \in DOMAIN tracks :
           i # j => tracks[i].id # tracks[j].id
    /\ LiveIds \cap removedIds = {}
    /\ LiveIds \cup removedIds = Range(createdIds)

\* C10 witness: a track has been removed and a track created after the
\* removal is live next to an older one.
C10_Witness ==
    /\ removedIds # {}
    /\ Len(tracks) >= 2
    /\ \E i \in DOMAIN tracks : \A r \in removedIds : tracks[i].id > r

\* Track ids in the last output of update().
OutIds == {confirmedOut[i].trackId : i \in DOMAIN confirmedOut}

\* C11: a track matched in every cycle since its creation (hits = age) is
\* in the confirmed output exactly when it has been seen minHits times, so
\* it first appears in the output of its minHits-th cycle; and a track in
\* the output stays in every later output, under the same id, while live.
C11_ConfirmedAtMinHits ==
    /\ [](\A i \in DOMAIN tracks :
            tracks[i].hits = tracks[i].age =>
                (tracks[i].id \in OutIds <=> tracks[i].age >= minHits))
    /\ [][\A id \in OutIds : id \in {tracks'[i].id : i \in DOMAIN tracks'} =>
             id \in {confirmedOut'[i].trackId : i \in DOMAIN confirmedOut'}]_vars

\* C11 witness: three updates with the single box [0.1,0.1,0.4,0.4] end
\* with exactly one confirmed track, track 1, seen three times.
C11_Witness ==
    /\ cycles = minHits
    /\ Len(confirmedOut) = 1
    /\ confirmedOut[1].trackId = 1
    /\ Len(confirmedOut[1].trajectory) = minHits
    /\ \A k \in DOMAIN confirmedOut[1].trajectory :
           BoxOf(confirmedOut[1].trajectory[k]) = [xmin |-> 1, ymin |-> 1, xmax |-> 4, ymax |-> 4]
    /\ Len(tracks) = 1

\* C12: a confirmed track is removed exactly in the cycle in which its
\* timeSinceUpdate first exceeds maxAge (no live track is beyond maxAge and
\* no confirmed track was removed at or below it), and its id is never the
\* id of a live track afterwards.
C12_RemovedAfterMaxAge ==
    /\ \A i \in DOMAIN tracks : tracks[i].timeSinceUpdate <= maxAge
    /\ \A r \in removedTracks :
           /\ r.hits >= minHits => r.timeSinceUpdate = maxAge + 1
           /\ \A i \in DOMAIN tracks : tracks[i].id # r.id

\* C12 witness: a confirmed track was removed and a later detection at the
\* same place is tracked under a new id.
C12_Witness ==
    \E r \in removedTracks :
        /\ r.hits >= minHits
        /\ \E i \in DOMAIN tracks :
              /\ BoxOf(tracks[i].bbox) = BoxOf(r.bbox)
              /\ tracks[i].id > r.id

\* C13: every record of the confirmed output belongs to a live track with
\* hits >= minHits; unconfirmed and removed tracks are never in the output.
C13_OutputOnlyConfirmedLive ==
    /\ \A k \in DOMAIN confirmedOut :
          /\ \E i \in DOMAIN tracks :
                tracks[i].id = confirmedOut[k].trackId /\ tracks[i].hits >= minHits
          /\ confirmedOut[k].trackId \notin removedIds
    /\ \A i \in DOMAIN tracks : tracks[i].hits < minHits => tracks[i].id \notin OutIds

\* C13 witness: the output holds a confirmed track while an unconfirmed
\* track is live and another track has been removed.
C13_Witness ==
    /\ confirmedOut # << >>
    /\ \E i \in DOMAIN tracks : tracks[i].hits < minHits
    /\ removedIds # {}

\* The pairs of an association, as a set.
Pairs(m) == {m.matched[k] : k \in DOMAIN m.matched}

\* IoU strictly above the threshold.
AboveThreshold(iou) == iou.num * iouThreshold.den > iouThreshold.num * iou.den

\* What C14 says of one result m of associate(trks, dets).
ValidMatching(m, trks, dets) ==
    /\ \A p \in Pairs(m) : \A q \in Pairs(m) :
          (p[1] = q[1] \/ p[2] = q[2]) => p = q
    /\ Cardinality(Pairs(m)) = Len(m.matched)
    /\ \A p \in Pairs(m) :
          /\ p[1] \in DOMAIN trks /\ p[2] \in DOMAIN dets
          /\ AboveThreshold(calculateIoU(trks[p[1]].prediction, dets[p[2]]))
    /\ m.unmatchedTracks = DOMAIN trks \ {p[1] : p \in Pairs(m)}
    /\ m.unmatchedDetections = DOMAIN dets \ {p[2] : p \in Pairs(m)}

\* C14: for the live tracks of any reachable state and any batch, associate
\* returns a one-to-one matching whose pairs have IoU strictly above
\* iouThreshold, and matched, unmatchedTracks and unmatchedDetections
\* account for every track and every detection exactly once.
C14_AssociateValid ==
    \A trks \in {predict(tracks)} : \A dets \in Batches :
        \A m \in {associate(trks, dets)} : ValidMatching(m, trks, dets)

\* C14 witness: some batch is associated with the live tracks leaving a
\* matched pair, an unmatched track and an unmatched detection.
C14_Witness ==
    \E trks \in {predict(tracks)} : \E dets \in Batches :
        \E m \in {associate(trks, dets)} :
            /\ m.matched # << >>
            /\ m.unmatchedTracks # {}
            /\ m.unmatchedDetections # {}

\* A detection with a label and a normalized, non-empty box.
WellFormed(d) ==
    /\ d.label # NoLabel
    /\ {d.xmin, d.ymin, d.xmax, d.ymax} \subseteq 0..10
    /\ d.xmin < d.xmax
    /\ d.ymin < d.ymax

\* C15: a detection without a label or with an invalid box is excluded from
\* association and creates no track: no live track holds one as its box,
\* and none is in a trajectory.
C15_MalformedRejected ==
    /\ \A i \in DOMAIN tracks : WellFormed(tracks[i].bbox)
    /\ \A id \in DOMAIN trackHistory :
          \A k \in DOMAIN trackHistory[id] : WellFormed(trackHistory[id][k])

\* --------------------------------------------------------- metric properties

IsRecord(r) == r # NullResult

\* Frame ids of the results handed to recordFrame, in recording order.
Recorded ==
    LET recs == SelectSeq(broadcasts, IsRecord)
    IN  [i \in DOMAIN recs |-> recs[i].frame_id]

\* The last k elements of s (all of s when it is shorter).
LastOf(s, k) == SubSeq(s, Max({1, Len(s) - k + 1}), Len(s))

\* C16: the stored samples never number more than windowSize x targetFps,
\* and they are the most recently recorded ones in recording order (what
\* overflows is removed from the old end).
C16_WindowKeepsNewest ==
    /\ Len(metrics.frames) <= windowSize * targetFps
    /\ metrics.frames = LastOf(Recorded, windowSize * targetFps)

\* More results recorded than the window holds: the window is full and the
\* earliest sample is gone.
C16_Witness ==
    /\ Len(Recorded) > windowSize * targetFps
    /\ Len(metrics.frames) = windowSize * targetFps
    /\ Recorded[1] \notin Range(metrics.frames)

\* C17: for a non-empty list, calculateLatencyStats returns
\* min <= median <= p95 <= max, each an element of the list, read at indices
\* within the list; the list handed over is left as it was, and a second
\* call on it returns the same.
C17_LatencyStatsOrdered ==
    (statsCalls >= 1 /\ latenciesIn # << >>) =>
        /\ stats.min <= stats.median
        /\ stats.median <= stats.p95
        /\ stats.p95 <= stats.max
        /\ {stats.min, stats.median, stats.p95, stats.max} \subseteq Range(latenciesIn)
        /\ medianIndex(Len(latenciesIn)) \in 0..(Len(latenciesIn) - 1)
        /\ p95Index(Len(latenciesIn)) \in 0..(Len(latenciesIn) - 1)
        /\ latencies = latenciesIn
        /\ statsCalls = 2 => statsAgain = stats

\* Two calls on an unsorted list long enough for the four values to differ.
C17_Witness ==
    /\ statsCalls = 2
    /\ latenciesIn # sorted(latenciesIn)
    /\ stats.min < stats.median
    /\ stats.median < stats.p95
    /\ stats.p95 < stats.max

\* C18: what GET /metrics and GET /metrics/report answer is what the
\* streaming pipeline recorded: processedFrames is the number of results
\* the phone-stream handler recorded, and the report covers the stored
\* samples.
C18_EndpointsSeeRecordedFrames ==
    [][requests' # requests =>
          /\ response'.route = "metrics" =>
                 response'.processedFrames = metrics'.processedFrames
          /\ response'.route = "report" =>
                 /\ response'.samples = Len(metrics'.frames)
                 /\ response'.error <=> metrics'.frames = << >>]_vars

\* ------------------------------------------------- scheduling properties

\* C19 as stated: detector calls are started only by scheduler ticks, so
\* the calls started never outnumber the ticks fired.
C19_CallsOnlyAtTicks ==
    Len(detectorLog) <= ticks

\* C19: a detector call is started only by a scheduler tick or by a frame
\* arrival, only when isProcessing is false, and one at a time: the calls
\* started never outnumber the ticks fired plus the frames arrived.
C19_CallsAtTicksOrArrivals ==
    /\ [](Len(detectorLog) <= ticks + arrived)
    /\ [][detectorLog' # detectorLog =>
             /\ Len(detectorLog') = Len(detectorLog) + 1
             /\ ~isProcessing
             /\ ticks' = ticks + 1 \/ arrived' = arrived + 1]_vars

\* A call started by an arrival has completed and a later one, started by a
\* tick, is in flight: more calls than ticks.
C19_Witness ==
    /\ Len(detectorLog) > ticks
    /\ \E c \in inflight : c.by = "tick"
    /\ broadcasts # << >>

\* ------------------------------------------------- association properties

CostOf(trks, dets, c) == Cost(trks[c[1]].prediction, dets[c[2]])

\* The reference procedure of C20: repeatedly commit the lowest-cost cell
\* below 1 - iouThreshold among the remaining rows and columns (the first
\* in row-major order among equals), and remove its row and column.
RECURSIVE GlobalGreedyFrom(_, _, _, _, _)
GlobalGreedyFrom(trks, dets, rows, cols, acc) ==
    LET cells == {c \in rows \X cols : Less(CostOf(trks, dets, c), MaxCost)}
        lowest == {c \in cells :
                      \A d \in cells : ~Less(CostOf(trks, dets, d), CostOf(trks, dets, c))}
        pick == CHOOSE c \in lowest :
                    \A d \in lowest : c[1] < d[1] \/ (c[1] = d[1] /\ c[2] <= d[2])
    IN  IF cells = {} THEN acc
        ELSE GlobalGreedyFrom(trks, dets, rows \ {pick[1]}, cols \ {pick[2]},
                              acc \cup {pick})

GlobalGreedy(trks, dets) ==
    GlobalGreedyFrom(trks, dets, DOMAIN trks, DOMAIN dets, {})

\* Some track is matched to a detection for which another track, left
\* unmatched, has a strictly lower cost.
Overtaken(m, trks, dets) ==
    \E p \in Pairs(m) : \E i \in m.unmatchedTracks :
        Less(CostOf(trks, dets, <<i, p[2]>>), CostOf(trks, dets, p))

\* C20 as stated: associate returns what the reference procedure returns,
\* and no track is matched to a detection while another still-unassigned
\* track had a strictly lower cost for that detection.
C20_AssociateGlobalGreedy ==
    \A trks \in {predict(tracks)} : \A dets \in Batches :
        \A m \in {associate(trks, dets)} :
            /\ Pairs(m) = GlobalGreedy(trks, dets)
            /\ ~Overtaken(m, trks, dets)

\* Detections not matched to a track before track i.
Available(m, dets, i) == DOMAIN dets \ {p[2] : p \in {q \in Pairs(m) : q[1] < i}}

\* What the amended C20 says of one result m of associate(trks, dets).
PerTrackGreedy(m, trks, dets) ==
    /\ \A a \in DOMAIN m.matched : \A b \in DOMAIN m.matched :
          a < b => m.matched[a][1] < m.matched[b][1]
    /\ \A p \in Pairs(m) :
          /\ p[2] \in Available(m, dets, p[1])
          /\ Less(CostOf(trks, dets, p), MaxCost)
          /\ \A k \in Available(m, dets, p[1]) :
                /\ ~Less(CostOf(trks, dets, <<p[1], k>>), CostOf(trks, dets, p))
                /\ k < p[2] => Less(CostOf(trks, dets, p), CostOf(trks, dets, <<p[1], k>>))
    /\ \A i \in m.unmatchedTracks :
          \A k \in Available(m, dets, i) :
              ~Less(CostOf(trks, dets, <<i, k>>), MaxCost)

\* C20: associate commits pairs track by track, in the order of the live
\* tracks: each track takes the detection of lowest cost among those no
\* earlier track has taken (the first of them among equals) if that cost is
\* below 1 - iouThreshold, and stays unmatched otherwise.
C20_AssociatePerTrackGreedy ==
    \A trks \in {predict(tracks)} : \A dets \in Batches :
        \A m \in {associate(trks, dets)} : PerTrackGreedy(m, trks, dets)

\* An earlier track takes the detection that a later track, left
\* unmatched, fits strictly better: the result differs from the reference.
C20_Witness ==
    \E trks \in {predict(tracks)} : \E dets \in Batches :
        \E m \in {associate(trks, dets)} :
            /\ Overtaken(m, trks, dets)
            /\ Pairs(m) # GlobalGreedy(trks, dets)

\* ------------------------------------------------ tracker cycle properties

\* Indices of the tracks that update() has added to the ones before.
NewIndices(before, after) == (Len(before) + 1)..Len(after)

HalfOverlap(box, d) == calculateIoU(box, d).num * 2 = calculateIoU(box, d).den

\* What C21 says of the tracker st after the match, create and mark steps
\* of update(dets), m being the association.
CreatesPerUnmatched(st, m, dets) ==
    /\ Len(st.tracks) = Len(tracks) + Cardinality(m.unmatchedDetections)
    /\ \A i \in DOMAIN tracks : st.tracks[i].id = tracks[i].id
    /\ \A j \in m.unmatchedDetections :
          Cardinality({i \in NewIndices(tracks, st.tracks) :
                          st.tracks[i].bbox = dets[j]}) = 1
    /\ \A i \in NewIndices(tracks, st.tracks) :
          /\ st.tracks[i].hits = 1
          /\ st.tracks[i].velocity = [x |-> 0, y |-> 0]
          /\ ~IsConfirmed(st.tracks[i])
          /\ \E j \in m.unmatchedDetections : st.tracks[i].bbox = dets[j]
    /\ \A p \in Pairs(m) :
          \A i \in NewIndices(tracks, st.tracks) : st.tracks[i].bbox # dets[p[2]]

\* C21: in one update cycle every unmatched detection creates exactly one
\* new track with hits = 1, velocity (0,0) and not confirmed, a matched
\* detection creates none, and two detections that both overlap the single
\* existing track with IoU 0.5 give one association and one new track.
C21_UnmatchedCreatesOneTrack ==
    \A trks \in {predict(tracks)} : \A dets \in MixedBatches :
        \A m \in {associate(trks, dets)} :
            \A st \in {Matched(tracks, trackHistory, nextTrackId, createdIds, dets)} :
                /\ CreatesPerUnmatched(st, m, dets)
                /\ (Len(trks) = 1 /\ Len(dets) = 2
                        /\ \A j \in DOMAIN dets : HalfOverlap(trks[1].prediction, dets[j]))
                    => Len(m.matched) = 1 /\ Len(st.tracks) = 2

\* The state after such a cycle: the one track that existed has taken one
\* of the two neighbours, the other neighbour has become a second track.
C21_Witness ==
    /\ Len(tracks) = 2
    /\ Len(births) = 2
    /\ births[1].detection = MixedDetections.box
    /\ births[2].cycle = births[1].cycle + 1
    /\ tracks[1].hits = 2
    /\ tracks[2].hits = 1
    /\ {tracks[1].bbox, tracks[2].bbox} = {MixedDetections.left, MixedDetections.right}

\* The live track with the given id.
TrackOf(id) == CHOOSE t \in Range(tracks) : t.id = id

\* What C22 says of the tracker st after the match, create and mark steps
\* of update(), m being the association.
LostCounted(st, m) ==
    /\ \A i \in DOMAIN tracks :
          /\ i \in m.unmatchedTracks =>
                 st.tracks[i].timeSinceUpdate = tracks[i].timeSinceUpdate + 1
          /\ i \notin m.unmatchedTracks => st.tracks[i].timeSinceUpdate = 0
    /\ \A i \in NewIndices(tracks, st.tracks) : st.tracks[i].timeSinceUpdate = 0

\* C22: in every cycle timeSinceUpdate grows by exactly 1 for exactly the
\* tracks that existed before the cycle and were not matched in it, and is
\* 0 for the tracks matched or created in it; it becomes 0 in no other way.
C22_LostCountedOnce ==
    /\ [](\A trks \in {predict(tracks)} : \A dets \in MixedBatches :
             \A m \in {associate(trks, dets)} :
                \A st \in {Matched(tracks, trackHistory, nextTrackId, createdIds, dets)} :
                    LostCounted(st, m))
    /\ [][\A i \in DOMAIN tracks' :
             IF tracks'[i].id \in LiveIds
             THEN \/ /\ tracks'[i].timeSinceUpdate = 0
                     /\ tracks'[i].hits = TrackOf(tracks'[i].id).hits + 1
                  \/ /\ tracks'[i].timeSinceUpdate =
                            TrackOf(tracks'[i].id).timeSinceUpdate + 1
                     /\ tracks'[i].hits = TrackOf(tracks'[i].id).hits
             ELSE tracks'[i].timeSinceUpdate = 0 /\ tracks'[i].hits = 1]_vars

\* A cycle has matched one track, left another unmatched and created a
\* third.
C22_Witness ==
    /\ Len(tracks) = 3
    /\ tracks[1].timeSinceUpdate = 0 /\ tracks[1].hits > 1
    /\ tracks[2].timeSinceUpdate > 0
    /\ tracks[3].timeSinceUpdate = 0 /\ tracks[3].hits = 1
    /\ births[3].cycle = cycles

\* The creation record of the track with the given id.
BirthOf(id) == CHOOSE b \in Range(births) : b.id = id

\* Removed by the age test on unconfirmed tracks, not for being lost.
RemovedUnconfirmed(r) == r.hits < minHits /\ r.timeSinceUpdate <= maxAge

\* C23 as stated: the age test is made before the increment, so a track
\* created in cycle c whose hits stay below minHits is still live at the
\* end of cycle c + ageLimit.
C23_TestBeforeIncrement ==
    \A r \in removedTracks :
        RemovedUnconfirmed(r) => cycles > BirthOf(r.id).cycle + ageLimit

\* C23: age is incremented for every track before the removal test, and the
\* test is made on the incremented age: a track created in cycle c has age
\* 1 at the end of cycle c, and if its hits stay below minHits (and it is
\* not lost for more than maxAge cycles) it is live at the end of cycle
\* c + ageLimit - 1 and removed in cycle c + ageLimit.
C23_TestAfterIncrement ==
    /\ [](\A i \in DOMAIN tracks :
             /\ tracks[i].age = cycles - BirthOf(tracks[i].id).cycle + 1
             /\ tracks[i].hits < minHits => tracks[i].age <= ageLimit)
    /\ [](\A r \in removedTracks :
             r.timeSinceUpdate > maxAge \/ (r.hits < minHits /\ r.age = ageLimit + 1))
    /\ [][\A r \in removedTracks' \ removedTracks :
             RemovedUnconfirmed(r) => cycles' = BirthOf(r.id).cycle + ageLimit]_vars

\* An unconfirmed track has been removed by the age test.
C23_Witness ==
    \E r \in removedTracks :
        /\ RemovedUnconfirmed(r)
        /\ r.age = ageLimit + 1
        /\ cycles = BirthOf(r.id).cycle + ageLimit

\* The history h after one more entry x under the cap.
Pushed(h, x) == (IF Len(h) = historyCap THEN Tail(h) ELSE h) \o <<x>>

\* C24: every live track has a trajectory of 1 to 50 entries, oldest first:
\* a match appends the matched detection at the end and removes the first
\* entry when that makes 51, a cycle without a match leaves the trajectory
\* as it is, a new track starts with one entry; the ids with a trajectory
\* are the live ids.
C24_HistoryBounded ==
    /\ [](/\ DOMAIN trackHistory = LiveIds
          /\ \A id \in LiveIds :
                /\ Len(trackHistory[id]) \in 1..historyCap
                /\ Last(trackHistory[id]) = TrackOf(id).bbox)
    /\ [][\A i \in DOMAIN tracks' :
             LET t == tracks'[i]
             IN  IF t.id \in LiveIds
                 THEN IF t.hits = TrackOf(t.id).hits + 1
                      THEN trackHistory'[t.id] = Pushed(trackHistory[t.id], t.bbox)
                      ELSE trackHistory'[t.id] = trackHistory[t.id]
                 ELSE trackHistory'[t.id] = <<t.bbox>>]_vars

\* A track has been matched more than 50 times, its trajectory is full and
\* its entries are not all the same; another track has been pruned.
C24_Witness ==
    /\ removedIds # {}
    /\ \E i \in DOMAIN tracks :
          /\ tracks[i].hits > historyCap
          /\ Len(trackHistory[tracks[i].id]) = historyCap
          /\ \E k \in 1..(historyCap - 1) :
                trackHistory[tracks[i].id][k] # trackHistory[tracks[i].id][k + 1]

\* ------------------------------------------------ pipeline properties (2)

\* C25: also when cleanup() is called while a detector call is in flight
\* and frames or ticks follow, there is never more than one call in flight,
\* and isProcessing is true exactly while a call is in flight.
C25_OneInFlightAcrossCleanup ==
    /\ Cardinality(inflight) <= 1
    /\ isProcessing <=> inflight # {}

\* C26: the detector is passed frames in arrival order and each at most
\* once: the frames passed to it, in call order, have strictly increasing
\* arrival numbers.
C26_DetectorSeesArrivalOrder ==
    \A i \in DOMAIN detectorLog : \A j \in DOMAIN detectorLog :
        i < j => detectorLog[i] < detectorLog[j]

\* Three calls, some started by an arrival and some by a tick, with frames
\* discarded in between.
C26_Witness ==
    /\ Len(detectorLog) >= 3
    /\ ticks > 0
    /\ \E k \in 1..(Len(detectorLog) - 1) : detectorLog[k + 1] > detectorLog[k] + 1

\* C27: every 'detection-result' event broadcast carries a result record,
\* not null, for a frame that was passed to the detector; a frame that was
\* only queued causes no broadcast.
C27_BroadcastsAreResults ==
    /\ \A i \in DOMAIN broadcasts :
          /\ broadcasts[i] # NullResult
          /\ broadcasts[i].frame_id \in Range(detectorLog)
    /\ Len(broadcasts) <= Len(detectorLog)

Idle == frameQueue = << >> /\ ~isProcessing

\* C28: when the arrivals stop with frame n the last one, the timer keeps
\* firing and every detector call completes, frame n is eventually passed
\* to the detector and the pipeline ends up idle (queue empty, isProcessing
\* false) for good.
C28_LastFrameProcessed ==
    \A n \in 1..MaxFrames :
        <>[](arrived = n) => (<>(n \in Range(detectorLog)) /\ <>[]Idle)

\* The last frame arrived while a call was in flight, was picked up by a
\* tick, and the pipeline is idle again.
C28_Witness ==
    /\ Idle
    /\ inflight = {}
    /\ arrived > 1
    /\ Last(detectorLog) = arrived
    /\ arrived - 1 \in Range(detectorLog)
    /\ Len(broadcasts) = arrived
    /\ Last(broadcasts) = NullResult

\* ---------------------------------------------------- streamer properties

\* Capture loops alive: every chain is either inside capture() or waiting
\* for its timer.
CaptureLoops == capturing + pendingCaptures

\* C29: whatever the order of startStreaming, stopStreaming and timer
\* firings, at most one capture loop is alive.
C29_OneCaptureLoop ==
    CaptureLoops <= 1

\* ------------------------------------------------------- label properties

\* The batch with every label replaced by the same one.
Unlabelled(dets) == [j \in DOMAIN dets |-> [dets[j] EXCEPT !.label = "any"]]

\* C30: association does not depend on labels, a track keeps the label of
\* the detection that created it, and what getConfirmedTracks reports for
\* it is that label with the box and the score of the latest matched
\* detection.
C30_LabelFixedAtCreation ==
    /\ \A trks \in {predict(tracks)} : \A dets \in MixedBatches :
          associate(trks, dets) = associate(trks, Unlabelled(dets))
    /\ \A i \in DOMAIN tracks :
          tracks[i].label = BirthOf(tracks[i].id).detection.label
    /\ \A k \in DOMAIN confirmedOut :
          LET o == confirmedOut[k]
              latest == Last(trackHistory[o.trackId])
          IN  /\ o.label = BirthOf(o.trackId).detection.label
              /\ BoxOf(o) = BoxOf(latest)
              /\ o.score = latest.score

\* A confirmed track created from a "person" detection is reported with
\* that label after its latest match was a "dog" detection.
C30_Witness ==
    \E k \in DOMAIN confirmedOut :
        /\ confirmedOut[k].label = "person"
        /\ Last(trackHistory[confirmedOut[k].trackId]).label = "dog"
        /\ BoxOf(confirmedOut[k]) = BoxOf(MixedDetections.left)

====
